---- MODULE Spec2Model ----
(***************************************************************************)
(* A model of main.py, the .proto to Go converter.                         *)
(*                                                                         *)
(* Representation.  A Python str is a sequence of characters (one-element  *)
(* TLA+ strings).  The fixed text of an output template (an f-string's     *)
(* literal part) is kept as one element of the sequence, so an emitted     *)
(* line reads <<"type ", "U","s","e","r", " struct {">>.  An input line is *)
(* the sequence of its lexemes, each a str: a maximal run of word          *)
(* characters and dots, a run of digits, a single punctuation character,   *)
(* or the comment marker //.  White space between lexemes is implied, so   *)
(* \s+ and \s* of the regular expressions are the lexeme boundaries, and a *)
(* literal of a regular expression matches one whole lexeme.  Where the    *)
(* code takes a piece of the line as it stands (the parenthesised groups   *)
(* of an rpc), white space other than one blank between two lexemes is a   *)
(* lexeme of its own: a tab, two blanks, or a blank next to a parenthesis. *)
(***************************************************************************)
EXTENDS Integers, Sequences, FiniteSets, TLC

VARIABLES
    pc,                  \* position of the run in main / parse_proto_and_generate_go
    lines,               \* the lines read from the input file
    package_name,        \* --package
    line_count,          \* lines consumed by the scan loop
    state,               \* "NONE", "MESSAGE", "SERVICE", "ENUM"
    current_enum_name,
    is_first_enum_field,
    imports,             \* the import set
    body_code,           \* the body line buffer
    go_code,             \* the assembled (then possibly formatted) text
    gofmt,               \* what became of the formatting pass
    out_file,            \* text written to --output
    stdout,              \* text printed to standard output
    raised,              \* the exception that ended the run, "none" if none did
    exit_status          \* the process's exit status, -1 while it runs

vars == <<pc, lines, package_name, line_count, state, current_enum_name,
          is_first_enum_field, imports, body_code, go_code, gofmt, out_file,
          stdout, raised, exit_status>>

scan_vars == <<state, current_enum_name, is_first_enum_field, imports, body_code>>
main_vars == <<gofmt, out_file, stdout, raised, exit_status>>

----------------------------------------------------------------------------
(* Characters and str methods *)

LowerCase == <<"a","b","c","d","e","f","g","h","i","j","k","l","m",
               "n","o","p","q","r","s","t","u","v","w","x","y","z">>
UpperCase == <<"A","B","C","D","E","F","G","H","I","J","K","L","M",
               "N","O","P","Q","R","S","T","U","V","W","X","Y","Z">>
Digit == <<"0","1","2","3","4","5","6","7","8","9">>

Range(s) == {s[i] : i \in DOMAIN s}

IndexIn(c, alphabet) == CHOOSE i \in DOMAIN alphabet : alphabet[i] = c

IsLower(c) == c \in Range(LowerCase)
IsUpper(c) == c \in Range(UpperCase)
IsCased(c) == IsLower(c) \/ IsUpper(c)
IsDigit(c) == c \in Range(Digit)

\* str.upper / str.lower on one character
CharUpper(c) == IF IsLower(c) THEN UpperCase[IndexIn(c, LowerCase)] ELSE c
CharLower(c) == IF IsUpper(c) THEN LowerCase[IndexIn(c, UpperCase)] ELSE c

\* str.upper()
StrUpper(s) == [i \in DOMAIN s |-> CharUpper(s[i])]

\* the characters of the regular expression classes \w, [\w\.] and \d
IsWordChar(c) == IsCased(c) \/ IsDigit(c) \/ c = "_"
IsWord(s) == s # <<>> /\ \A i \in DOMAIN s : IsWordChar(s[i])
IsDotted(s) == s # <<>> /\ \A i \in DOMAIN s : IsWordChar(s[i]) \/ s[i] = "."
IsNumber(s) == s # <<>> /\ \A i \in DOMAIN s : IsDigit(s[i])

\* sub in s
Contains(s, sub) ==
    \E i \in 0..(Len(s) - Len(sub)) : SubSeq(s, i + 1, i + Len(sub)) = sub

\* s.endswith(suffix)
EndsWith(s, suffix) ==
    Len(s) >= Len(suffix) /\ SubSeq(s, Len(s) - Len(suffix) + 1, Len(s)) = suffix

\* str.title(): a cased character is upper-cased when it follows an uncased
\* one (or starts the string) and lower-cased when it follows a cased one.
Title(s) ==
    [i \in DOMAIN s |->
        IF ~IsCased(s[i]) THEN s[i]
        ELSE IF i > 1 /\ IsCased(s[i - 1]) THEN CharLower(s[i])
        ELSE CharUpper(s[i])]

\* str.split(sep) for a one-character separator
RECURSIVE Split(_, _)
Split(s, sep) ==
    IF \A i \in DOMAIN s : s[i] # sep THEN <<s>>
    ELSE LET k == CHOOSE i \in DOMAIN s :
                     s[i] = sep /\ \A j \in 1..(i - 1) : s[j] # sep
         IN <<SubSeq(s, 1, k - 1)>> \o Split(SubSeq(s, k + 1, Len(s)), sep)

\* ''.join(parts)
RECURSIVE Concat(_)
Concat(parts) ==
    IF parts = <<>> THEN <<>> ELSE Head(parts) \o Concat(Tail(parts))

\* sep.join(parts)
RECURSIVE Join(_, _)
Join(parts, sep) ==
    IF parts = <<>> THEN <<>>
    ELSE IF Len(parts) = 1 THEN parts[1]
    ELSE parts[1] \o sep \o Join(Tail(parts), sep)

----------------------------------------------------------------------------
(* Converter logic: the pure functions *)

\* lower camel case: the first component is kept as it is
to_camel_case_lower_first(snake_str) ==
    LET components == Split(snake_str, "_")
    IN Concat([i \in DOMAIN components |->
                  IF i = 1 THEN components[i] ELSE Title(components[i])])

to_camel_case(snake_str) ==
    LET components == Split(snake_str, "_")
    IN Concat([i \in DOMAIN components |-> Title(components[i])])

\* type_mapping, as (proto type, Go type) pairs
type_mapping ==
    << << <<"d","o","u","b","l","e">>,         <<"f","l","o","a","t","6","4">> >>,
       << <<"f","l","o","a","t">>,             <<"f","l","o","a","t","3","2">> >>,
       << <<"i","n","t","3","2">>,             <<"i","n","t","3","2">> >>,
       << <<"i","n","t","6","4">>,             <<"i","n","t","6","4">> >>,
       << <<"u","i","n","t","3","2">>,         <<"u","i","n","t","3","2">> >>,
       << <<"u","i","n","t","6","4">>,         <<"u","i","n","t","6","4">> >>,
       << <<"s","i","n","t","3","2">>,         <<"i","n","t","3","2">> >>,
       << <<"s","i","n","t","6","4">>,         <<"i","n","t","6","4">> >>,
       << <<"f","i","x","e","d","3","2">>,     <<"u","i","n","t","3","2">> >>,
       << <<"f","i","x","e","d","6","4">>,     <<"u","i","n","t","6","4">> >>,
       << <<"s","f","i","x","e","d","3","2">>, <<"i","n","t","3","2">> >>,
       << <<"s","f","i","x","e","d","6","4">>, <<"i","n","t","6","4">> >>,
       << <<"b","o","o","l">>,                 <<"b","o","o","l">> >>,
       << <<"s","t","r","i","n","g">>,         <<"s","t","r","i","n","g">> >>,
       << <<"b","y","t","e","s">>,             <<"[","]","b","y","t","e">> >>,
       << <<"g","o","o","g","l","e",".","p","r","o","t","o","b","u","f",".",
            "T","i","m","e","s","t","a","m","p">>,
                                               <<"t","i","m","e",".","T","i","m","e">> >>,
       << <<"T","i","m","e","s","t","a","m","p">>,
                                               <<"t","i","m","e",".","T","i","m","e">> >> >>

\* type_mapping.get(proto_type, proto_type)
map_type(proto_type) ==
    IF \E i \in DOMAIN type_mapping : type_mapping[i][1] = proto_type
    THEN type_mapping[CHOOSE i \in DOMAIN type_mapping :
                          type_mapping[i][1] = proto_type][2]
    ELSE proto_type

----------------------------------------------------------------------------
(* String literals of the scanner *)

S_timeTime == <<"t","i","m","e",".","T","i","m","e">>
S_uuidUUID == <<"u","u","i","d",".","U","U","I","D">>
S_UUID == <<"U","U","I","D">>
S_Id == <<"I","d">>
S_ID == <<"I","D">>
S_impContext == <<"\"","c","o","n","t","e","x","t","\"">>
S_impTime == <<"\"","t","i","m","e","\"">>
S_impUuid == <<"\"","g","i","t","h","u","b",".","c","o","m","/",
                "g","o","o","g","l","e","/","u","u","i","d","\"">>
S_message == <<"m","e","s","s","a","g","e">>
S_enum == <<"e","n","u","m">>
S_service == <<"s","e","r","v","i","c","e">>
S_rpc == <<"r","p","c">>
S_returns == <<"r","e","t","u","r","n","s">>
S_stream == <<"s","t","r","e","a","m">>
S_repeated == <<"r","e","p","e","a","t","e","d">>
S_slashes == <<"/","/">>
LBrace == <<"{">>
RBrace == <<"}">>
LParen == <<"(">>
RParen == <<")">>
Equals == <<"=">>
Semi == <<";">>

----------------------------------------------------------------------------
(* Line classifier.  A search returns the groups of the leftmost match as a *)
(* sequence, or <<>> when the pattern matches nowhere in the code part.     *)

Min(S) == CHOOSE x \in S : \A y \in S : x <= y

\* the text of some lexemes, as it stands in the line
Text(lexemes) == Join(lexemes, <<" ">>)

\* parts = raw_line.split('//', 1); parts[0].strip()
code_part(raw_line) ==
    LET marks == {i \in DOMAIN raw_line : raw_line[i] = S_slashes}
    IN IF marks = {} THEN raw_line ELSE SubSeq(raw_line, 1, Min(marks) - 1)

\* parts[1].strip() if len(parts) > 1 else ""
comment_part(raw_line) ==
    LET marks == {i \in DOMAIN raw_line : raw_line[i] = S_slashes}
    IN IF marks = {} THEN <<>>
       ELSE Text(SubSeq(raw_line, Min(marks) + 1, Len(raw_line)))

\* message_regex, enum_regex, service_regex: <keyword>\s+(\w+)\s*\{
opener_search(keyword, code) ==
    LET hits == {i \in 1..(Len(code) - 2) :
                    /\ code[i] = keyword
                    /\ IsWord(code[i + 1])
                    /\ code[i + 2] = LBrace}
    IN IF hits = {} THEN <<>> ELSE <<code[Min(hits) + 1]>>

\* message_regex applied with fullmatch()
message_regex_fullmatch(code) ==
    IF Len(code) = 3 THEN opener_search(S_message, code) ELSE <<>>

message_regex(code) == opener_search(S_message, code)
enum_regex(code) == opener_search(S_enum, code)
service_regex(code) == opener_search(S_service, code)

\* field_regex applied with match() and no (repeated)? group
field_regex_unqualified(code) ==
    IF /\ Len(code) >= 5
       /\ IsDotted(code[1])
       /\ IsWord(code[2])
       /\ code[3] = Equals
       /\ IsNumber(code[4])
       /\ code[5] = Semi
    THEN << <<>>, code[1], code[2] >>
    ELSE <<>>

\* field_regex with the type group optional
field_regex_untyped(code) ==
    LET hits == {i \in 1..(Len(code) - 3) :
                    /\ IsWord(code[i])
                    /\ code[i + 1] = Equals
                    /\ IsNumber(code[i + 2])
                    /\ code[i + 3] = Semi}
    IN IF hits = {} THEN <<>>
       ELSE LET i == Min(hits)
            IN << <<>>, IF i > 1 /\ IsDotted(code[i - 1]) THEN code[i - 1] ELSE <<>>,
                  code[i] >>

\* field_regex: \s*(repeated)?\s*([\w\.]+)\s+(\w+)\s*=\s*\d+;
\* groups: (repeated or <<>>, type, name)
field_regex(code) ==
    LET hits == {i \in 1..(Len(code) - 4) :
                    /\ IsDotted(code[i])
                    /\ IsWord(code[i + 1])
                    /\ code[i + 2] = Equals
                    /\ IsNumber(code[i + 3])
                    /\ code[i + 4] = Semi}
    IN IF hits = {} THEN <<>>
       ELSE LET i == Min(hits)
            IN << IF i > 1 /\ code[i - 1] = S_repeated THEN S_repeated ELSE <<>>,
                  code[i], code[i + 1] >>

\* the longest suffix of a lexeme that \w+ matches
RECURSIVE WordSuffix(_)
WordSuffix(s) ==
    IF s = <<>> \/ ~IsWordChar(s[Len(s)]) THEN <<>>
    ELSE WordSuffix(SubSeq(s, 1, Len(s) - 1)) \o <<s[Len(s)]>>

\* enum_field_regex: \s*(\w+)\s*=\s*\d+;
enum_field_regex(code) ==
    LET hits == {i \in 1..(Len(code) - 3) :
                    /\ WordSuffix(code[i]) # <<>>
                    /\ code[i + 1] = Equals
                    /\ IsNumber(code[i + 2])
                    /\ code[i + 3] = Semi}
    IN IF hits = {} THEN <<>> ELSE <<WordSuffix(code[Min(hits)])>>

\* the lexemes of a parenthesised group \(([^)]+)\) opening at position i:
\* <<>> when code[i] is not "(", the group is empty or it is never closed
paren_group(code, i) ==
    LET closes == {j \in (i + 1)..Len(code) : code[j] = RParen}
    IN IF i > Len(code) \/ code[i] # LParen \/ closes = {} \/ Min(closes) = i + 1
       THEN <<>>
       ELSE SubSeq(code, i + 1, Min(closes) - 1)

\* rpc_regex applied with fullmatch(): the trailing `;` belongs to no group
rpc_regex_fullmatch(code) == <<>>

\* rpc_regex: \s*rpc\s+(\w+)\s*\(([^)]+)\)\s*returns\s*\(([^)]+)\)
\* groups: (name, request lexemes, response lexemes)
rpc_regex(code) ==
    LET req(i) == paren_group(code, i + 2)
        ret(i) == i + 3 + Len(req(i)) + 1
        hits == {i \in 1..(Len(code) - 1) :
                    /\ code[i] = S_rpc
                    /\ IsWord(code[i + 1])
                    /\ req(i) # <<>>
                    /\ ret(i) <= Len(code)
                    /\ code[ret(i)] = S_returns
                    /\ paren_group(code, ret(i) + 1) # <<>>}
    IN IF hits = {} THEN <<>>
       ELSE LET i == Min(hits)
            IN <<code[i + 1], req(i), paren_group(code, ret(i) + 1)>>

\* a lexeme of white space
IsSpace(lexeme) == lexeme # <<>> /\ \A i \in DOMAIN lexeme : lexeme[i] \in {" ", "\t"}

\* the text of a group as it stands in the line: one blank between two
\* lexemes unless one of them is white space itself
RECURSIVE GroupText(_)
GroupText(lexemes) ==
    IF lexemes = <<>> THEN <<>>
    ELSE IF Len(lexemes) = 1 THEN lexemes[1]
    ELSE lexemes[1]
             \o (IF IsSpace(lexemes[1]) \/ IsSpace(lexemes[2]) THEN <<>> ELSE <<" ">>)
             \o GroupText(Tail(lexemes))

StartsWith(s, prefix) ==
    Len(s) >= Len(prefix) /\ SubSeq(s, 1, Len(prefix)) = prefix

\* str.replace(old, new): the occurrences of old from left to right
RECURSIVE Replace(_, _, _)
Replace(s, old, new) ==
    IF s = <<>> THEN <<>>
    ELSE IF StartsWith(s, old)
    THEN new \o Replace(SubSeq(s, Len(old) + 1, Len(s)), old, new)
    ELSE <<s[1]>> \o Replace(Tail(s), old, new)

\* group.replace("stream ", "")
strip_stream(group) == Replace(group, S_stream \o <<" ">>, <<>>)

----------------------------------------------------------------------------
(* Emitted lines *)

\* "UUID" in comment_part, without upper()
uuid_hint_case_sensitive(comment) == Contains(comment, S_UUID)

\* "UUID" in comment_part.upper()
uuid_hint(comment) == Contains(StrUpper(comment), S_UUID)

\* go_type with the UUID override applied after the repeated wrapping
field_go_type_override_last(is_repeated, proto_type, comment) ==
    LET mapped == map_type(proto_type)
        wrapped == IF is_repeated THEN <<"[", "]">> \o mapped ELSE mapped
    IN IF uuid_hint(comment) THEN S_uuidUUID ELSE wrapped

\* go_type of a matched field: table, then UUID override, then repeated
field_go_type(is_repeated, proto_type, comment) ==
    LET mapped == map_type(proto_type)
        hinted == IF uuid_hint(comment) THEN S_uuidUUID ELSE mapped
    IN IF is_repeated THEN <<"[", "]">> \o hinted ELSE hinted

\* imports decided by the type the field ends up with
field_imports_after_override(proto_type, comment) ==
    IF uuid_hint(comment) THEN {S_impUuid}
    ELSE IF map_type(proto_type) = S_timeTime THEN {S_impTime}
    ELSE {}

\* what a matched field adds to imports
field_imports(proto_type, comment) ==
    (IF map_type(proto_type) = S_timeTime THEN {S_impTime} ELSE {})
        \cup (IF uuid_hint(comment) THEN {S_impUuid} ELSE {})

\* go_field_name: to_camel_case, then a final "Id" becomes "ID"
go_field_name(field_name) ==
    LET camel == to_camel_case(field_name)
    IN IF EndsWith(camel, S_Id)
       THEN SubSeq(camel, 1, Len(camel) - 2) \o S_ID
       ELSE camel

message_lines(struct_name) ==
    << <<"// ">> \o struct_name \o <<" represents the ">> \o struct_name
           \o <<" model from proto">>,
       <<"type ">> \o struct_name \o <<" struct {">> >>

\* the opener lines of an enum without the constant block
enum_lines_without_const(enum_name) ==
    << <<"// ">> \o enum_name \o <<" is an enumeration based on byte">>,
       <<"type ">> \o enum_name \o <<" byte">> >>

enum_lines(enum_name) ==
    << <<"// ">> \o enum_name \o <<" is an enumeration based on byte">>,
       <<"type ">> \o enum_name \o <<" byte">>,
       <<"const (">> >>

service_lines(service_name) ==
    << <<"// ">> \o service_name
           \o <<" defines the interface for the REST client/server">>,
       <<"type ">> \o service_name \o <<" interface {">> >>

\* the closing delimiter with no blank line after it
close_lines_no_blank(closed_state) ==
    << IF closed_state = "ENUM" THEN <<")">> ELSE <<"}">> >>

\* the closing brace for a block of any kind
close_lines_brace(closed_state) == << <<"}">>, <<>> >>

\* the closing delimiter and the blank line after it
close_lines(closed_state) ==
    << IF closed_state = "ENUM" THEN <<")">> ELSE <<"}">>, <<>> >>

\* the back quote of a Go tag literal, which a TLA+ string cannot hold
BackQuote == "<backquote>"

field_line(name, go_type, field_name) ==
    <<"\t">> \o name \o <<" ">> \o go_type \o <<" ", BackQuote, "json:\"">>
        \o field_name \o <<",omitempty\"", BackQuote>>

\* every constant written with the type and iota
enum_value_line_all_iota(is_first, val_name, enum_name) ==
    <<"\t">> \o val_name \o <<" ">> \o enum_name \o <<" = iota">>

\* the constant of an enum value: the first of a block carries the type
enum_value_line(is_first, val_name, enum_name) ==
    IF is_first
    THEN <<"\t">> \o val_name \o <<" ">> \o enum_name \o <<" = iota">>
    ELSE <<"\t">> \o val_name

rpc_line(method_name, req_type, resp_type) ==
    <<"\t">> \o method_name \o <<"(ctx context.Context, req *">> \o req_type
        \o <<") (*">> \o resp_type \o <<", error)">>

----------------------------------------------------------------------------
(* The scan loop: one iteration of the loop over lines *)

\* not raw_line or raw_line.startswith('//'), or an empty code part
skipped(raw_line) ==
    raw_line = <<>> \/ raw_line[1] = S_slashes \/ code_part(raw_line) = <<>>

\* a scan step that keeps a buffer per block: a message or service opener
\* starts the buffer afresh, and no other line is looked at
ScanLine_buffer_per_block ==
    /\ pc = "scan"
    /\ line_count < Len(lines)
    /\ line_count' = line_count + 1
    /\ LET code == code_part(lines[line_count + 1])
       IN IF message_regex(code) # <<>> THEN
              /\ body_code' = message_lines(message_regex(code)[1])
              /\ state' = "MESSAGE"
              /\ UNCHANGED <<current_enum_name, is_first_enum_field, imports>>
          ELSE IF service_regex(code) # <<>> THEN
              /\ body_code' = service_lines(service_regex(code)[1])
              /\ state' = "SERVICE"
              /\ UNCHANGED <<current_enum_name, is_first_enum_field, imports>>
          ELSE
              UNCHANGED scan_vars
    /\ UNCHANGED <<pc, lines, package_name, go_code, main_vars>>

ScanLine ==
    /\ pc = "scan"
    /\ line_count < Len(lines)
    /\ line_count' = line_count + 1
    /\ LET raw_line == lines[line_count + 1]
           code == code_part(raw_line)
           comment == comment_part(raw_line)
           msg_match == message_regex(code)
           enum_match == enum_regex(code)
           svc_match == service_regex(code)
           field_match == field_regex(code)
           enum_field_match == enum_field_regex(code)
           rpc_match == rpc_regex(code)
       IN IF skipped(raw_line) THEN
              UNCHANGED scan_vars
          ELSE IF msg_match # <<>> THEN
              /\ body_code' = body_code \o message_lines(msg_match[1])
              /\ state' = "MESSAGE"
              /\ UNCHANGED <<current_enum_name, is_first_enum_field, imports>>
          ELSE IF enum_match # <<>> THEN
              /\ current_enum_name' = enum_match[1]
              /\ body_code' = body_code \o enum_lines(enum_match[1])
              /\ state' = "ENUM"
              /\ is_first_enum_field' = TRUE
              /\ UNCHANGED imports
          ELSE IF svc_match # <<>> THEN
              /\ body_code' = body_code \o service_lines(svc_match[1])
              /\ state' = "SERVICE"
              /\ UNCHANGED <<current_enum_name, is_first_enum_field, imports>>
          ELSE IF code = <<RBrace>> /\ state \in {"MESSAGE", "SERVICE", "ENUM"} THEN
              /\ body_code' = body_code \o close_lines(state)
              /\ state' = "NONE"
              /\ UNCHANGED <<current_enum_name, is_first_enum_field, imports>>
          ELSE IF state = "MESSAGE" /\ field_match # <<>> THEN
              /\ imports' = imports \cup field_imports(field_match[2], comment)
              /\ body_code' = Append(body_code,
                     field_line(go_field_name(field_match[3]),
                                field_go_type(field_match[1] = S_repeated,
                                              field_match[2], comment),
                                field_match[3]))
              /\ UNCHANGED <<state, current_enum_name, is_first_enum_field>>
          ELSE IF state = "ENUM" /\ enum_field_match # <<>> THEN
              /\ body_code' = Append(body_code,
                     enum_value_line(is_first_enum_field, enum_field_match[1],
                                     current_enum_name))
              /\ is_first_enum_field' = FALSE
              /\ UNCHANGED <<state, current_enum_name, imports>>
          ELSE IF state = "SERVICE" /\ rpc_match # <<>> THEN
              /\ body_code' = Append(body_code,
                     rpc_line(rpc_match[1], strip_stream(GroupText(rpc_match[2])),
                              strip_stream(GroupText(rpc_match[3]))))
              /\ UNCHANGED <<state, current_enum_name, is_first_enum_field, imports>>
          ELSE
              UNCHANGED scan_vars
    /\ UNCHANGED <<pc, lines, package_name, go_code, main_vars>>

----------------------------------------------------------------------------
(* Code assembly: lines 250-259 *)

\* code points order the characters that occur in import paths
CodePoints == <<"\"", ".", "/">> \o Digit \o UpperCase \o <<"_">> \o LowerCase

\* s < t for two str
RECURSIVE StrLess(_, _)
StrLess(s, t) ==
    IF t = <<>> THEN FALSE
    ELSE IF s = <<>> THEN TRUE
    ELSE IF s[1] = t[1] THEN StrLess(Tail(s), Tail(t))
    ELSE IndexIn(s[1], CodePoints) < IndexIn(t[1], CodePoints)

\* insertion of x into a sorted list
RECURSIVE Insert(_, _)
Insert(x, sorted_list) ==
    IF sorted_list = <<>> THEN <<x>>
    ELSE IF StrLess(x, Head(sorted_list)) THEN <<x>> \o sorted_list
    ELSE <<Head(sorted_list)>> \o Insert(x, Tail(sorted_list))

\* list(imports): the elements as the set yields them
sorted_as_iterated(iteration) == iteration

\* sorted(imports), given the order in which the set yields its elements
RECURSIVE sorted(_)
sorted(iteration) ==
    IF iteration = <<>> THEN <<>>
    ELSE Insert(iteration[Len(iteration)],
                sorted(SubSeq(iteration, 1, Len(iteration) - 1)))

\* the orders in which iterating a set may yield its elements
IterationOrders(S) ==
    {o \in [1..Cardinality(S) -> S] : \A i, j \in DOMAIN o : i # j => o[i] # o[j]}

\* the go_code list without the blank line that ends the import block
go_code_lines_no_separator(package, iteration, body) ==
    << <<"package ">> \o package, <<>> >>
        \o (IF iteration # <<>>
            THEN <<<<"import (">>>>
                     \o [i \in DOMAIN iteration |-> <<"\t">> \o sorted(iteration)[i]]
                     \o <<<<")">>>>
            ELSE <<>>)
        \o body

\* the go_code list: header, import block, body
go_code_lines(package, iteration, body) ==
    << <<"package ">> \o package, <<>> >>
        \o (IF iteration # <<>>
            THEN <<<<"import (">>>>
                     \o [i \in DOMAIN iteration |-> <<"\t">> \o sorted(iteration)[i]]
                     \o <<<<")">>, <<>>>>
            ELSE <<>>)
        \o body

\* an assembly that closes the block the input left open
Assemble_closing ==
    /\ pc = "scan"
    /\ line_count = Len(lines)
    /\ \E iteration \in IterationOrders(imports) :
           go_code' = Join(go_code_lines(package_name, iteration,
                               IF state = "NONE" THEN body_code
                               ELSE body_code \o close_lines(state)), <<"\n">>)
    /\ pc' = "format"
    /\ UNCHANGED <<lines, package_name, line_count, scan_vars, main_vars>>

\* "\n".join(go_code)
Assemble ==
    /\ pc = "scan"
    /\ line_count = Len(lines)
    /\ \E iteration \in IterationOrders(imports) :
           go_code' = Join(go_code_lines(package_name, iteration, body_code), <<"\n">>)
    /\ pc' = "format"
    /\ UNCHANGED <<lines, package_name, line_count, scan_vars, main_vars>>

----------------------------------------------------------------------------
(* The command line entry point: main, lines 263-296 *)

\* what gofmt prints for a text it accepts: some other text
gofmt_stdout(code) == <<"<gofmt>">> \o code

\* a missing input file ending the run as if it had succeeded
exit_code_missing_input_ok(exception) ==
    IF exception = "click.BadParameter" THEN 2
    ELSE IF exception = "input FileNotFoundError" THEN 0
    ELSE 1

\* the status the process ends with when an exception ends the run: click
\* reports a bad parameter with 2, sys.exit(1) and an uncaught exception give 1
exit_code(exception) == IF exception = "click.BadParameter" THEN 2 ELSE 1

\* the run ends on an exception, nothing written
Fail(exception) ==
    /\ pc' = "exit"
    /\ raised' = exception
    /\ exit_status' = exit_code(exception)

\* click.Path(exists=True, dir_okay=False) on the input path
CheckArguments ==
    /\ pc = "cli"
    /\ \E exists \in BOOLEAN :
           IF exists
           THEN pc' = "setup" /\ UNCHANGED <<raised, exit_status>>
           ELSE Fail("click.BadParameter")
    /\ UNCHANGED <<lines, package_name, line_count, scan_vars, go_code,
                   gofmt, out_file, stdout>>

\* setup_logging runs outside main's try
SetupLogging ==
    /\ pc = "setup"
    /\ \E failed \in BOOLEAN :
           IF failed
           THEN Fail("setup_logging error")
           ELSE pc' = "open" /\ UNCHANGED <<raised, exit_status>>
    /\ UNCHANGED <<lines, package_name, line_count, scan_vars, go_code,
                   gofmt, out_file, stdout>>

\* open(input_file).readlines(): FileNotFoundError is sys.exit(1), any other
\* exception reaches main's handler, which is sys.exit(1) too
OpenInput ==
    /\ pc = "open"
    /\ \E outcome \in {"read", "input FileNotFoundError", "input read error"} :
           IF outcome = "read"
           THEN pc' = "scan" /\ UNCHANGED <<raised, exit_status>>
           ELSE Fail(outcome)
    /\ UNCHANGED <<lines, package_name, line_count, scan_vars, go_code,
                   gofmt, out_file, stdout>>

\* run_gofmt returning what gofmt printed whether or not it succeeded
run_gofmt_returns_stdout(code, outcome) ==
    IF outcome = "formatted" THEN gofmt_stdout(code) ELSE <<>>

\* what run_gofmt returns: gofmt's output, or the code it was given when
\* gofmt is not found or exits with a failure status
run_gofmt(code, outcome) ==
    IF outcome = "formatted" THEN gofmt_stdout(code) ELSE code

\* if should_format: go_code = run_gofmt(go_code)
RunGofmt ==
    /\ pc = "format"
    /\ \E outcome \in {"skipped", "formatted", "FileNotFoundError",
                       "CalledProcessError", "Exception"} :
           /\ gofmt' = outcome
           /\ IF outcome = "Exception"
              THEN Fail("gofmt error") /\ UNCHANGED go_code
              ELSE /\ pc' = "output"
                   /\ go_code' = IF outcome = "skipped" THEN go_code
                                 ELSE run_gofmt(go_code, outcome)
                   /\ UNCHANGED <<raised, exit_status>>
    /\ UNCHANGED <<lines, package_name, line_count, scan_vars, out_file, stdout>>

\* the write to --output, or the print to standard output; an error of
\* open(), write() or print() leaves nothing or a part of the text behind
WriteOutput ==
    /\ pc = "output"
    /\ \E output \in {"file", "stdout"}, failed \in BOOLEAN :
           IF failed
           THEN /\ Fail("output error")
                /\ \E written \in {<<>>, SubSeq(go_code, 1, 1)} :
                       IF output = "file"
                       THEN out_file' = written /\ UNCHANGED stdout
                       ELSE stdout' = written /\ UNCHANGED out_file
           ELSE /\ pc' = "exit"
                /\ exit_status' = 0
                /\ IF output = "file"
                   THEN out_file' = go_code /\ UNCHANGED stdout
                   ELSE stdout' = go_code \o <<"\n">> /\ UNCHANGED out_file
                /\ UNCHANGED raised
    /\ UNCHANGED <<lines, package_name, line_count, scan_vars, go_code, gofmt>>

----------------------------------------------------------------------------
(* Inputs *)

MaxLines == 4
MaxMixedLines == 3
MaxMainLines == 2
MaxNameLen == 3

N_User == <<"U","s","e","r">>
N_Status == <<"S","t","a","t","u","s">>
N_Kind == <<"K","i","n","d">>
N_Api == <<"A","p","i">>
N_Get == <<"G","e","t">>
N_GetRequest == <<"G","e","t","R","e","q","u","e","s","t">>
N_GetResponse == <<"G","e","t","R","e","s","p","o","n","s","e">>
N_Foo == <<"F","o","o">>
N_Timestamp == <<"T","i","m","e","s","t","a","m","p">>
N_string == <<"s","t","r","i","n","g">>
N_int64 == <<"i","n","t","6","4">>
N_user_id == <<"u","s","e","r","_","i","d">>
N_name == <<"n","a","m","e">>
N_Name == <<"N","a","m","e">>
N_seen_at == <<"s","e","e","n","_","a","t">>
N_refs == <<"r","e","f","s">>
N_UserName == <<"U","s","e","r","N","a","m","e">>
N_Username == <<"U","s","e","r","n","a","m","e">>
N_UserID == <<"U","s","e","r","I","D">>
N_id == <<"i","d">>
N_UNKNOWN == <<"U","N","K","N","O","W","N">>
N_ACTIVE == <<"A","C","T","I","V","E">>
N_note == <<"n","o","t","e">>
N_uuid == <<"u","u","i","d">>
N_Uuid == <<"U","u","i","d">>
N_a == <<"a">>
N_api == <<"a","p","i">>
N_models == <<"m","o","d","e","l","s">>

\* message User {
L_message == <<S_message, N_User, LBrace>>
\* enum Status {
L_enum == <<S_enum, N_Status, LBrace>>
\* enum Kind {
L_enum2 == <<S_enum, N_Kind, LBrace>>
\* service Api {
L_service == <<S_service, N_Api, LBrace>>
\* }
L_close == <<RBrace>>
\* a field declaration: [repeated] <type> <name> = <tag>; [// <comment>]
FieldDecl(is_repeated, type, name, tag, comment) ==
    (IF is_repeated THEN <<S_repeated>> ELSE <<>>)
        \o <<type, name, Equals, <<tag>>, Semi>>
        \o (IF comment = <<>> THEN <<>> ELSE <<S_slashes>> \o comment)
\* string user_id = 1; // UUID
L_user_id == FieldDecl(FALSE, N_string, N_user_id, "1", <<S_UUID>>)
\* string name = 2;
L_name == FieldDecl(FALSE, N_string, N_name, "2", <<>>)
\* repeated Timestamp seen_at = 3; // a Uuid
L_seen_at == FieldDecl(TRUE, N_Timestamp, N_seen_at, "3", <<N_a, N_Uuid>>)
\* repeated Foo refs = 4;
L_refs == FieldDecl(TRUE, N_Foo, N_refs, "4", <<>>)
\* Timestamp UserName = 5;
L_UserName == FieldDecl(FALSE, N_Timestamp, N_UserName, "5", <<>>)
\* int64 id = 6; // uuid
L_id == FieldDecl(FALSE, N_int64, N_id, "6", <<N_uuid>>)
\* UNKNOWN = 0;
L_UNKNOWN == <<N_UNKNOWN, Equals, <<"0">>, Semi>>
\* ACTIVE = 5;
L_ACTIVE == <<N_ACTIVE, Equals, <<"5">>, Semi>>
\* rpc Get(GetRequest) returns (GetResponse);
L_rpc == <<S_rpc, N_Get, LParen, N_GetRequest, RParen, S_returns,
           LParen, N_GetResponse, RParen, Semi>>
\* rpc Get(stream GetRequest) returns (stream GetResponse);
L_rpc_stream == <<S_rpc, N_Get, LParen, S_stream, N_GetRequest, RParen, S_returns,
                  LParen, S_stream, N_GetResponse, RParen, Semi>>
\* an rpc declaration with the two groups as they stand between the parentheses
RpcDecl(request, response) ==
    <<S_rpc, N_Get, LParen>> \o request \o <<RParen, S_returns, LParen>>
        \o response \o <<RParen, Semi>>
\* rpc Get(stream GetRequest) returns (GetResponse);
L_rpc_stream_request == RpcDecl(<<S_stream, N_GetRequest>>, <<N_GetResponse>>)
\* rpc Get(GetRequest) returns (stream GetResponse);
L_rpc_stream_response == RpcDecl(<<N_GetRequest>>, <<S_stream, N_GetResponse>>)
\* rpc Get(stream<tab>GetRequest) returns (GetResponse);
L_rpc_stream_tab == RpcDecl(<<S_stream, <<"\t">>, N_GetRequest>>, <<N_GetResponse>>)
\* // note
L_note == <<S_slashes, N_note>>
\* } // note
L_close_note == <<RBrace, S_slashes, N_note>>
\* an empty line
L_blank == <<>>
\* message User { string user_id = 1; // UUID
L_message_user_id == L_message \o L_user_id
\* string name = 2; }
L_name_close == L_name \o L_close
\* service Api { rpc Get(GetRequest) returns (GetResponse); }
L_service_rpc_close == L_service \o L_rpc \o L_close

\* the files of at most n lines drawn from a set of lines
Files(line_set, n) == UNION {[1..k -> line_set] : k \in 0..n}

PackageNames == {N_models, N_api}

MixedLines == {L_message, L_enum, L_service, L_close, L_user_id, L_UserName,
               L_ACTIVE, L_rpc, L_note, L_blank}

MainLines == {L_message, L_user_id, L_enum, L_ACTIVE, L_service, L_rpc_stream,
              L_close}

----------------------------------------------------------------------------
(* Specifications *)

\* the import set seeded empty
initial_imports_empty == {}

\* the import set as line 118 seeds it
initial_imports == {S_impContext}

\* the state at line 134, with the file read, and before main has acted
Start(files, packages, start_pc) ==
    /\ pc = start_pc
    /\ lines \in files
    /\ package_name \in packages
    /\ line_count = 0
    /\ state = "NONE"
    /\ current_enum_name = <<>>
    /\ is_first_enum_field = FALSE
    /\ imports = initial_imports
    /\ body_code = <<>>
    /\ go_code = <<>>
    /\ gofmt = "none"
    /\ out_file = <<>>
    /\ stdout = <<>>
    /\ raised = "none"
    /\ exit_status = -1

\* parse_proto_and_generate_go on a readable file
Init == Start(Files(MixedLines, MaxMixedLines), PackageNames, "scan")
Next == ScanLine \/ Assemble
Spec == Init /\ [][Next]_vars

\* The for loop takes its next iteration while lines are left, and the
\* function goes on to the assembly when none is: nothing in it waits.  The
\* two conditions are stated on the loop's guard and counter, which every
\* ScanLine step, and on the position, which every Assemble step, satisfies.
NextIteration == pc = "scan" /\ line_count < Len(lines) /\ line_count' = line_count + 1
LoopExit == pc = "scan" /\ line_count = Len(lines) /\ pc' = "format"
SpecFair == Spec /\ WF_line_count(NextIteration) /\ WF_pc(LoopExit)

\* a run of main from the command line
InitMain == Start(Files(MainLines, MaxMainLines), PackageNames, "cli")
NextMain ==
    \/ CheckArguments
    \/ SetupLogging
    \/ OpenInput
    \/ ScanLine
    \/ Assemble
    \/ RunGofmt
    \/ WriteOutput
SpecMain == InitMain /\ [][NextMain]_vars

\* the declarations of messages and their fields
MessageLines == {L_message, L_close, L_user_id, L_name, L_seen_at, L_refs,
                 L_id, L_note, L_enum}
InitMessage == Start(Files(MessageLines, MaxLines), {N_models}, "scan")
SpecMessage == InitMessage /\ [][Next]_vars

\* the declarations of enums and their values
MaxEnumLines == 5
EnumLines == {L_enum, L_enum2, L_close, L_UNKNOWN, L_ACTIVE, L_name}
InitEnum == Start(Files(EnumLines, MaxEnumLines), {N_models}, "scan")
SpecEnum == InitEnum /\ [][Next]_vars

\* the two scenarios of the specification, whole and line by line
ScenarioLines == {L_message_user_id, L_name_close, L_service_rpc_close,
                  L_message, L_user_id, L_name, L_close, L_service, L_rpc}
InitScenario == Start(Files(ScenarioLines, MaxLines), {N_models}, "scan")
SpecScenario == InitScenario /\ [][Next]_vars

\* one field declaration in a message, for every name of a set of names
NameChars == {"N", "a", "_"}
NameSet ==
    {N_user_id, N_UserName, N_Name, N_name, N_id}
        \cup UNION {[1..k -> NameChars] : k \in 1..MaxNameLen}
InitNames ==
    Start({<<L_message, FieldDecl(FALSE, N_string, n, "1", <<>>)>> : n \in NameSet},
          {N_models}, "scan")
SpecNames == InitNames /\ [][Next]_vars

\* blocks of the three kinds, opened, interrupted, closed and left open
BlockLines == {L_message, L_enum, L_service, L_close, L_close_note, L_name,
               L_ACTIVE, L_rpc, L_note, L_blank}
InitBlocks == Start(Files(BlockLines, MaxLines), {N_models}, "scan")
SpecBlocks == InitBlocks /\ [][Next]_vars

\* blocks of the three kinds opened and closed, with a field and an enum
\* value for what stands inside them
BalanceLines == {L_message, L_enum, L_service, L_close, L_close_note, L_name,
                 L_ACTIVE}
InitBalance == Start(Files(BalanceLines, MaxLines), {N_models}, "scan")
SpecBalance == InitBalance /\ [][Next]_vars

\* the declarations of services and their rpcs
ServiceLines == {L_service, L_close, L_rpc, L_rpc_stream, L_rpc_stream_request,
                 L_rpc_stream_response, L_rpc_stream_tab, L_message}
InitService == Start(Files(ServiceLines, MaxLines), {N_models}, "scan")
SpecService == InitService /\ [][Next]_vars

\* one field declaration in a message, for every type name of the table and
\* one outside it, repeated or not, with and without a UUID hint
TypeNames == {type_mapping[i][1] : i \in DOMAIN type_mapping} \cup {N_Foo}
TypeComments == {<<>>, <<S_UUID>>, <<N_a, N_Uuid>>}
InitTypes ==
    Start({<<L_message, FieldDecl(r, t, N_refs, "1", c)>> :
               r \in BOOLEAN, t \in TypeNames, c \in TypeComments},
          {N_models}, "scan")
SpecTypes == InitTypes /\ [][Next]_vars

----------------------------------------------------------------------------
(* Reading the input and the output, for the properties below.  These      *)
(* describe the text of a line as the proto language has it, each           *)
(* declaration on a line of its own, without the scanner's classifier.      *)

\* the line the scan consumed last
LastLine == lines[line_count]

\* a line up to its comment marker, and the lexemes after it
BeforeComment(l) ==
    IF \E i \in DOMAIN l : l[i] = S_slashes
    THEN SubSeq(l, 1, (CHOOSE i \in DOMAIN l :
                          l[i] = S_slashes /\ \A j \in 1..(i - 1) : l[j] # S_slashes) - 1)
    ELSE l
AfterComment(l) == SubSeq(l, Len(BeforeComment(l)) + 2, Len(l))

IsBlankOrComment(l) == BeforeComment(l) = <<>>

\* <keyword> <Name> {
IsOpenerLine(l, keyword) ==
    Len(l) = 3 /\ l[1] = keyword /\ IsWord(l[2]) /\ l[3] = LBrace

\* [repeated] <type> <name> = <tag>; [// comment]
Unqualified(l) ==
    IF BeforeComment(l) # <<>> /\ BeforeComment(l)[1] = S_repeated
    THEN Tail(BeforeComment(l)) ELSE BeforeComment(l)
IsFieldDecl(l) ==
    LET d == Unqualified(l)
    IN Len(d) = 5 /\ IsDotted(d[1]) /\ IsWord(d[2]) /\ d[3] = Equals
           /\ IsNumber(d[4]) /\ d[5] = Semi
DeclRepeated(l) == BeforeComment(l)[1] = S_repeated
DeclType(l) == Unqualified(l)[1]
DeclName(l) == Unqualified(l)[2]

\* <NAME> = <number>;
IsEnumValueDecl(l) ==
    Len(l) = 4 /\ IsWord(l[1]) /\ l[2] = Equals /\ IsNumber(l[3]) /\ l[4] = Semi

\* a comment that holds the word uuid in some letter case
HintWords == {<<"U","U","I","D">>, <<"u","u","i","d">>, <<"U","u","i","d">>}
HasUuidComment(l) == \E i \in DOMAIN AfterComment(l) : AfterComment(l)[i] \in HintWords

\* an emitted struct field line: <tab><Name> <type> `json:"<name>,omitempty"`
Position(line, piece) == CHOOSE i \in DOMAIN line : line[i] = piece
IsStructFieldLine(line) ==
    /\ Len(line) >= 7
    /\ line[1] = "\t"
    /\ line[Len(line)] = BackQuote
    /\ line[Len(line) - 1] = ",omitempty\""
    /\ \E i \in DOMAIN line : line[i] = " "
    /\ \E i \in DOMAIN line : line[i] = "json:\""
EmittedName(line) == SubSeq(line, 2, Position(line, " ") - 1)
EmittedType(line) ==
    SubSeq(line, Position(line, " ") + 1, Position(line, "json:\"") - 3)
EmittedTag(line) == SubSeq(line, Position(line, "json:\"") + 1, Len(line) - 2)

\* the lines of the assembled text
TextLines(text) == Split(text, "\n")
Occurrences(seq, x) == Cardinality({i \in DOMAIN seq : seq[i] = x})

----------------------------------------------------------------------------
(* C1 *)

\* lines i..j are `message <Name> {`, then field declarations (and blank or
\* comment lines), then `}`
WellFormedMessageBlock(i, j) ==
    /\ IsOpenerLine(lines[i], S_message)
    /\ lines[j] = <<RBrace>>
    /\ \A k \in (i + 1)..(j - 1) : IsFieldDecl(lines[k]) \/ IsBlankOrComment(lines[k])

DeclsBetween(i, j) == SelectSeq(SubSeq(lines, i + 1, j - 1), IsFieldDecl)

\* C1: when the scan has just consumed the `}` of a well-formed single-level
\* message block, the body buffer ends with the struct opener, then exactly
\* one struct-field line per field declaration of the block, in the order of
\* the declarations (each tagged with its declaration's name), then the
\* closing `}` and a blank line.
C1_FieldLinePerDeclaration ==
    \A i \in 1..(line_count - 1) :
        WellFormedMessageBlock(i, line_count) =>
            LET decls == DeclsBetween(i, line_count)
                n == Len(decls)
                top == Len(body_code) - n - 3
            IN /\ top >= 1
               /\ body_code[top + 1] = <<"type ">> \o lines[i][2] \o <<" struct {">>
               /\ \A k \in 1..n :
                      /\ IsStructFieldLine(body_code[top + 1 + k])
                      /\ EmittedTag(body_code[top + 1 + k]) = DeclName(decls[k])
               /\ body_code[top + n + 2] = <<"}">>
               /\ body_code[top + n + 3] = <<>>

\* a block of two different declarations, one of them repeated, was closed
C1_Witness ==
    /\ line_count = 4
    /\ WellFormedMessageBlock(1, 4)
    /\ Len(DeclsBetween(1, 4)) = 2
    /\ DeclName(lines[2]) # DeclName(lines[3])
    /\ DeclRepeated(lines[2])
    /\ Len(body_code) = 6
    /\ state = "NONE"

----------------------------------------------------------------------------
(* C2 *)

\* C2: when the scan has just consumed an enum value declaration in state
\* ENUM, the line it appended is `<value> <EnumName> = iota`, naming the enum
\* whose opener lines come right before it in the buffer, if it is the first
\* constant after that opener, and the bare `<value>` otherwise; the number
\* written in the source plays no part.
C2_FirstConstantIota ==
    (line_count >= 1 /\ IsEnumValueDecl(LastLine) /\ state = "ENUM") =>
        LET n == Len(body_code)
            openers == {k \in 1..(line_count - 1) : IsOpenerLine(lines[k], S_enum)}
            opened == lines[CHOOSE k \in openers : \A m \in openers : m <= k][2]
        IN /\ n >= 4
           /\ openers # {}
           /\ IF body_code[n - 1] = <<"const (">>
              THEN /\ body_code[n - 2] = <<"type ">> \o opened \o <<" byte">>
                   /\ body_code[n] = <<"\t">> \o LastLine[1] \o <<" ">> \o opened
                                         \o <<" = iota">>
              ELSE body_code[n] = <<"\t">> \o LastLine[1]

\* two enum blocks were opened, each has its first constant, and the first
\* block has a second one
C2_Witness ==
    /\ line_count = 5
    /\ Len(body_code) = 9
    /\ body_code[4] = <<"\t">> \o N_UNKNOWN \o <<" ">> \o N_Status \o <<" = iota">>
    /\ body_code[5] = <<"\t">> \o N_ACTIVE
    /\ body_code[9] = <<"\t">> \o N_ACTIVE \o <<" ">> \o N_Kind \o <<" = iota">>

----------------------------------------------------------------------------
(* C3 *)

UuidImportLine == <<"\t">> \o S_impUuid

\* C3: when the scan has just consumed, in state MESSAGE, a field declaration
\* whose comment holds uuid in some letter case, the line it appended has the
\* type uuid.UUID (the element type, for a repeated field) whatever type was
\* declared, and the uuid import is in the import set; the assembled text
\* lists the uuid import exactly once when the set holds it, however many
\* such fields there were.
C3_UuidHintOverrides ==
    /\ (line_count >= 1 /\ IsFieldDecl(LastLine) /\ HasUuidComment(LastLine)
            /\ state = "MESSAGE") =>
           /\ body_code # <<>>
           /\ IsStructFieldLine(body_code[Len(body_code)])
           /\ EmittedType(body_code[Len(body_code)]) =
                  (IF DeclRepeated(LastLine) THEN <<"[", "]">> ELSE <<>>) \o S_uuidUUID
           /\ S_impUuid \in imports
    /\ pc = "format" =>
           Occurrences(TextLines(go_code), UuidImportLine) =
               (IF S_impUuid \in imports THEN 1 ELSE 0)

\* three hinted fields of different declared types and letter cases were
\* scanned in one block, and the text was assembled
C3_Witness ==
    /\ pc = "format"
    /\ lines = <<L_message, L_user_id, L_seen_at, L_id>>
    /\ Occurrences(TextLines(go_code), UuidImportLine) = 1

----------------------------------------------------------------------------
(* C4 *)

StructFields == SelectSeq(body_code, IsStructFieldLine)

TwoLineUser == <<L_message_user_id, L_name_close>>
FourLineUser == <<L_message, L_user_id, L_name, L_close>>

UserStructLine == <<"type ">> \o N_User \o <<" struct {">>
UserIDFieldLine ==
    <<"\t">> \o N_UserID \o <<" ", "u","u","i","d",".","U","U","I","D", " ",
        BackQuote, "json:\"">> \o N_user_id \o <<",omitempty\"", BackQuote>>
NameFieldLine ==
    <<"\t">> \o N_Name \o <<" ">> \o N_string \o <<" ", BackQuote, "json:\"">>
        \o N_name \o <<",omitempty\"", BackQuote>>

\* C4 as stated: the two-line input yields the struct User with the two
\* fields UserID uuid.UUID and Name string, and the uuid import.
C4_TwoLineInputTwoFields ==
    (pc = "format" /\ lines = TwoLineUser) =>
        /\ Len(body_code) >= 2
        /\ body_code[2] = UserStructLine
        /\ StructFields = <<UserIDFieldLine, NameFieldLine>>
        /\ S_impUuid \in imports

\* C4 amended: the two-line input yields the struct User with the one field
\* Name string, no uuid import and no closing delimiter, as the declaration on
\* the opener's line is not scanned and `string name = 2; }` is no closer; the
\* same declarations on four lines yield the two fields UserID uuid.UUID and
\* Name string, tagged user_id and name, the uuid import, and the closing `}`.
C4_OwnLineDeclarations ==
    /\ (pc = "format" /\ lines = TwoLineUser) =>
           /\ Len(body_code) = 3
           /\ body_code[2] = UserStructLine
           /\ body_code[3] = NameFieldLine
           /\ imports = {S_impContext}
           /\ state = "MESSAGE"
    /\ (pc = "format" /\ lines = FourLineUser) =>
           /\ Len(body_code) = 6
           /\ body_code[2] = UserStructLine
           /\ StructFields = <<UserIDFieldLine, NameFieldLine>>
           /\ body_code[5] = <<"}">>
           /\ imports = {S_impContext, S_impUuid}
           /\ state = "NONE"

\* the two-line input was scanned and assembled
C4_Witness ==
    pc = "format" /\ lines = TwoLineUser /\ StructFields = <<NameFieldLine>>

----------------------------------------------------------------------------
(* C5 *)

OneLineApi == <<L_service_rpc_close>>
ThreeLineApi == <<L_service, L_rpc, L_close>>

ApiInterfaceLine == <<"type ">> \o N_Api \o <<" interface {">>
GetMethodLine ==
    <<"\t">> \o N_Get \o <<"(ctx context.Context, req *">> \o N_GetRequest
        \o <<") (*">> \o N_GetResponse \o <<", error)">>

IsMethodLine(line) ==
    line # <<>> /\ line[1] = "\t"
        /\ \E i \in DOMAIN line : line[i] = "(ctx context.Context, req *"
MethodLines == SelectSeq(body_code, IsMethodLine)

\* C5 as stated: the one-line input yields the interface Api with exactly
\* one method line, Get.
C5_OneLineInputOneMethod ==
    (pc = "format" /\ lines = OneLineApi) =>
        /\ Len(body_code) >= 2
        /\ body_code[2] = ApiInterfaceLine
        /\ MethodLines = <<GetMethodLine>>

\* C5 amended: the one-line input yields the interface opener of Api with no
\* method line and no closing delimiter, as the rpc on the opener's line is
\* not scanned; the same service on three lines yields the interface Api with
\* exactly the one method line
\* Get(ctx context.Context, req *GetRequest) (*GetResponse, error).
C5_OwnLineRpc ==
    /\ (pc = "format" /\ lines = OneLineApi) =>
           /\ Len(body_code) = 2
           /\ body_code[2] = ApiInterfaceLine
           /\ state = "SERVICE"
    /\ (pc = "format" /\ lines = ThreeLineApi) =>
           /\ Len(body_code) = 5
           /\ body_code[2] = ApiInterfaceLine
           /\ MethodLines = <<GetMethodLine>>
           /\ body_code[3] = GetMethodLine
           /\ body_code[4] = <<"}">>
           /\ state = "NONE"

\* the service was scanned line by line and assembled
C5_Witness ==
    pc = "format" /\ lines = ThreeLineApi /\ MethodLines = <<GetMethodLine>>

----------------------------------------------------------------------------
(* C6 *)

ContextImportLine == <<"\t">> \o S_impContext

\* the text has an import block, opening on its third line, that lists a line
ImportBlockLists(text, import_line) ==
    LET t == TextLines(text)
    IN /\ Len(t) >= 5
       /\ t[3] = <<"import (">>
       /\ \E k \in 4..Len(t) :
              /\ t[k] = import_line
              /\ \A m \in 4..k : t[m] # <<")">>
              /\ \E m \in (k + 1)..Len(t) : t[m] = <<")">>

\* C6: the context import is in the import set in every state of the scan and
\* after it, and the assembled text has an import block that lists it.
C6_ContextImportAlways ==
    /\ S_impContext \in imports
    /\ pc = "format" => ImportBlockLists(go_code, ContextImportLine)

\* the empty input, and an input with a message and no service, were assembled
C6_Witness ==
    /\ pc = "format"
    /\ lines \in {<<>>, <<L_message, L_UserName, L_close>>}
    /\ ImportBlockLists(go_code, ContextImportLine)

----------------------------------------------------------------------------
(* C7 *)

\* C7: the assembled text is the same whatever order the import set yields
\* its elements in: it is the text every iteration order assembles from the
\* package name, the import set and the body buffer the scan left.
C7_TextIndependentOfIterationOrder ==
    pc = "format" =>
        \A iteration \in IterationOrders(imports) :
            go_code = Join(go_code_lines(package_name, iteration, body_code), <<"\n">>)

\* a text with three imports, registered uuid first and time second
C7_Witness ==
    /\ pc = "format"
    /\ lines = <<L_message, L_user_id, L_UserName>>
    /\ Cardinality(imports) = 3

----------------------------------------------------------------------------
(* C8 *)

\* letters only, in words of one capital followed by lower case: UserName
IsExportedCamel(n) ==
    /\ n # <<>>
    /\ \A i \in DOMAIN n : IsCased(n[i])
    /\ IsUpper(n[1])
    /\ IsLower(n[Len(n)])
    /\ \A i \in 1..(Len(n) - 1) : IsUpper(n[i]) => IsLower(n[i + 1])

\* one capital followed by lower case letters only: Name
IsCapitalised(n) ==
    n # <<>> /\ IsUpper(n[1]) /\ \A i \in 2..Len(n) : IsLower(n[i])

\* the field declaration on line 2 has been scanned in state MESSAGE
FieldScanned == line_count = 2 /\ state = "MESSAGE" /\ Len(body_code) = 3

\* C8 as stated: to_camel_case leaves every exported camelCase name without
\* underscores as it is, and the field user_id is emitted as UserID.
C8_IdempotentOnCamelCase ==
    FieldScanned =>
        LET n == DeclName(lines[2])
        IN /\ IsExportedCamel(n) =>
                  to_camel_case(n) = n /\ EmittedName(body_code[3]) = n
           /\ n = N_user_id => EmittedName(body_code[3]) = N_UserID

\* C8 amended: to_camel_case leaves a name as it is when the name is one
\* capital letter followed by lower case letters only; a capital inside a
\* name is lower-cased, so UserName becomes Username; the field user_id is
\* emitted as UserID.
C8_IdempotentOnCapitalised ==
    FieldScanned =>
        LET n == DeclName(lines[2])
        IN /\ IsCapitalised(n) =>
                  to_camel_case(n) = n /\ EmittedName(body_code[3]) = n
           /\ n = N_UserName =>
                  to_camel_case(n) = N_Username
                      /\ EmittedName(body_code[3]) = N_Username
           /\ n = N_user_id =>
                  to_camel_case(n) # N_UserID
                      /\ EmittedName(body_code[3]) = N_UserID

\* the field named Name was scanned and emitted under its own name
C8_Witness ==
    /\ FieldScanned
    /\ DeclName(lines[2]) = N_Name
    /\ EmittedName(body_code[3]) = N_Name

----------------------------------------------------------------------------
(* C9 *)

\* the text assembly produced, before any formatting
AssembledText ==
    Join(go_code_lines(package_name,
                       CHOOSE iteration \in IterationOrders(imports) : TRUE,
                       body_code), <<"\n">>)

FormatterFailed == gofmt \in {"FileNotFoundError", "CalledProcessError"}

\* C9: once gofmt was not found or exited with a failure status, go_code is
\* still the unformatted assembled text and the run goes on to the output
\* step; the run then ends with status 0, having written or printed exactly
\* that text, and the only other end it can have is an error of the output
\* step itself.
C9_FormatterFailureKeepsText ==
    FormatterFailed =>
        /\ go_code = AssembledText
        /\ pc \in {"output", "exit"}
        /\ raised \in {"none", "output error"}
        /\ (pc = "exit" /\ raised = "none") =>
               /\ exit_status = 0
               /\ \/ out_file = AssembledText /\ stdout = <<>>
                  \/ stdout = AssembledText \o <<"\n">> /\ out_file = <<>>

\* gofmt failed on a text with a struct in it, and the run ended with 0
C9_Witness ==
    /\ gofmt = "CalledProcessError"
    /\ pc = "exit"
    /\ exit_status = 0
    /\ lines = <<L_message, L_user_id>>
    /\ out_file = AssembledText

----------------------------------------------------------------------------
(* C10 *)

\* C10: a run that an exception ends has a status other than 0; unless the
\* exception is an error of the output step itself, which leaves the text
\* incomplete, the run has written and printed nothing; when the input file
\* is missing, nothing was scanned or assembled either; a run that ends with
\* status 0 has scanned every line, assembled the text and written or
\* printed go_code.
C10_FailureIsNonZero ==
    /\ raised # "none" => pc = "exit" /\ exit_status \notin {0, -1}
    /\ raised \notin {"none", "output error"} => out_file = <<>> /\ stdout = <<>>
    /\ raised = "output error" => out_file # go_code /\ stdout # go_code \o <<"\n">>
    /\ raised \in {"click.BadParameter", "input FileNotFoundError"} =>
           line_count = 0 /\ body_code = <<>> /\ go_code = <<>>
    /\ exit_status = 0 =>
           /\ pc = "exit"
           /\ raised = "none"
           /\ line_count = Len(lines)
           /\ go_code # <<>>
           /\ out_file = go_code \/ stdout = go_code \o <<"\n">>
    /\ pc = "exit" => exit_status # -1

\* the input file vanished between the argument check and open()
C10_Witness ==
    /\ raised = "input FileNotFoundError"
    /\ pc = "exit"
    /\ exit_status = 1
    /\ lines # <<>>

----------------------------------------------------------------------------
(* C11 *)

\* the three import paths in the order of their code points: after the
\* quote, "c" < "g" < "t"
ImportsInOrder == <<S_impContext, S_impUuid, S_impTime>>
IsRegistered(path) == path \in imports
ExpectedImportLines ==
    LET paths == SelectSeq(ImportsInOrder, IsRegistered)
    IN [i \in DOMAIN paths |-> <<"\t">> \o paths[i]]

\* C11: the assembled text is the package header line, one blank line, the
\* import block with every registered path once and in sorted order, one
\* blank line, then the lines of the body buffer as they were appended.
C11_AssembledLayout ==
    pc = "format" =>
        LET t == TextLines(go_code)
            n == Cardinality(imports)
        IN /\ imports \subseteq Range(ImportsInOrder)
           /\ Len(t) = 5 + n + Len(body_code)
           /\ t[1] = <<"package ">> \o package_name
           /\ t[2] = <<>>
           /\ t[3] = <<"import (">>
           /\ SubSeq(t, 4, 3 + n) = ExpectedImportLines
           /\ t[4 + n] = <<")">>
           /\ t[5 + n] = <<>>
           /\ SubSeq(t, 6 + n, Len(t)) = body_code

\* a text of package api with the three imports, time registered first
C11_Witness ==
    /\ pc = "format"
    /\ package_name = N_api
    /\ lines = <<L_message, L_UserName, L_user_id>>
    /\ Len(TextLines(go_code)) = 12

----------------------------------------------------------------------------
(* Steps of the scan, for the properties below *)

\* a step of the scan loop: it consumes the line ThisLine
ScanStep == pc = "scan" /\ line_count' = line_count + 1
ThisLine == lines[line_count + 1]

\* a line whose code part is exactly `}`
IsCloserLine(l) == BeforeComment(l) = <<RBrace>>

\* `message <Name> {`, `enum <Name> {` or `service <Name> {`: the kind opened
OpenerKind(l) ==
    IF IsOpenerLine(BeforeComment(l), S_message) THEN "MESSAGE"
    ELSE IF IsOpenerLine(BeforeComment(l), S_enum) THEN "ENUM"
    ELSE IF IsOpenerLine(BeforeComment(l), S_service) THEN "SERVICE"
    ELSE "NONE"

----------------------------------------------------------------------------
(* C12 *)

\* C12: a step that consumes a line whose code part is exactly `}` leaves
\* the state NONE; from a state other than NONE it appends the closing
\* delimiter, `)` for ENUM and `}` for MESSAGE and SERVICE, and one blank
\* line, and from NONE it appends nothing.
C12_CloserStep ==
    [][(ScanStep /\ IsCloserLine(ThisLine)) =>
           /\ state' = "NONE"
           /\ body_code' =
                  IF state = "NONE" THEN body_code
                  ELSE body_code
                           \o << IF state = "ENUM" THEN <<")">> ELSE <<"}">>, <<>> >>
      ]_vars

\* an enum block with one value was closed by `} // note`
C12_Witness ==
    /\ line_count = 3
    /\ SubSeq(lines, 1, 3) = <<L_enum, L_ACTIVE, L_close_note>>
    /\ state = "NONE"
    /\ SubSeq(body_code, Len(body_code) - 1, Len(body_code)) = << <<")">>, <<>> >>

----------------------------------------------------------------------------
(* C13 *)

\* the lines an opener of a kind and a name appends, but for the text of the
\* comment line after the name
IsOpenerOutput(appended, kind, name) ==
    /\ Len(appended) = (IF kind = "ENUM" THEN 3 ELSE 2)
    /\ StartsWith(appended[1], <<"// ">> \o name)
    /\ appended[2] =
           <<"type ">> \o name
               \o << CASE kind = "MESSAGE" -> " struct {"
                       [] kind = "ENUM" -> " byte"
                       [] kind = "SERVICE" -> " interface {" >>
    /\ kind = "ENUM" => appended[3] = <<"const (">>

\* the kind of the block that line k of the input finds open: that of the
\* nearest opener line before it, unless a `}` line stands between them
KindOpenAt(k) ==
    LET marks == {j \in 1..(k - 1) :
                     OpenerKind(lines[j]) # "NONE" \/ IsCloserLine(lines[j])}
    IN IF marks = {} THEN "NONE"
       ELSE LET j == CHOOSE m \in marks : \A n \in marks : n <= m
            IN OpenerKind(lines[j])

\* C13: a step that consumes an opener line, whatever the state, sets the
\* state to the kind opened and appends the opener lines of the new block and
\* nothing else; a step that consumes `}` closes the block of the nearest
\* opener before it, with that block's delimiter, and leaves the state NONE,
\* whatever blocks were open before that opener.
C13_OpenerInEveryState ==
    [][ScanStep =>
           /\ OpenerKind(ThisLine) # "NONE" =>
                  /\ state' = OpenerKind(ThisLine)
                  /\ Len(body_code') > Len(body_code)
                  /\ SubSeq(body_code', 1, Len(body_code)) = body_code
                  /\ IsOpenerOutput(
                         SubSeq(body_code', Len(body_code) + 1, Len(body_code')),
                         OpenerKind(ThisLine), ThisLine[2])
           /\ IsCloserLine(ThisLine) =>
                  /\ state = KindOpenAt(line_count + 1)
                  /\ state' = "NONE"
                  /\ state # "NONE" =>
                         body_code' = body_code
                             \o << IF KindOpenAt(line_count + 1) = "ENUM"
                                   THEN <<")">> ELSE <<"}">>, <<>> >>
      ]_vars

\* an enum was opened inside an open message, and `}` closed the enum alone
C13_Witness ==
    /\ line_count = 3
    /\ SubSeq(lines, 1, 3) = <<L_message, L_enum, L_close>>
    /\ state = "NONE"
    /\ Len(body_code) = 7
    /\ body_code[2] = <<"type ">> \o N_User \o <<" struct {">>
    /\ body_code[5] = <<"const (">>
    /\ body_code[6] = <<")">>

----------------------------------------------------------------------------
(* C14 *)

\* rpc <Name>(<request>) returns (<response>);
IsRpcDecl(l) ==
    LET c == BeforeComment(l)
    IN /\ Len(c) >= 10
       /\ c[1] = S_rpc /\ IsWord(c[2]) /\ c[3] = LParen
       /\ c[Len(c) - 1] = RParen /\ c[Len(c)] = Semi
       /\ \E i \in 4..(Len(c) - 3) :
              c[i] = RParen /\ c[i + 1] = S_returns /\ c[i + 2] = LParen

\* neither an opener nor, in a state other than NONE, a closer
NeitherOpensNorCloses(l, s) ==
    OpenerKind(l) = "NONE" /\ ~(IsCloserLine(l) /\ s # "NONE")

\* C14 as stated: a line that is blank or comment-only, or that is neither
\* an opener, nor a closer in a state other than NONE, nor a declaration of
\* the kind of the current state (a field in MESSAGE, an enum value in ENUM,
\* an rpc in SERVICE), changes nothing.
C14_OtherLinesChangeNothing ==
    [][(/\ ScanStep
        /\ \/ IsBlankOrComment(ThisLine)
           \/ /\ NeitherOpensNorCloses(ThisLine, state)
              /\ ~(state = "MESSAGE" /\ IsFieldDecl(ThisLine))
              /\ ~(state = "ENUM" /\ IsEnumValueDecl(ThisLine))
              /\ ~(state = "SERVICE" /\ IsRpcDecl(ThisLine)))
       => UNCHANGED <<scan_vars, raised>>
      ]_vars

\* C14 amended: the same, but that a field declaration scanned in state ENUM
\* is no such line: it matches the enum-value pattern at `<name> = <tag>;`
\* and appends a constant named after the field, with the type and iota when
\* it is the first of its block, changing nothing but the buffer and the
\* first-value flag.
C14_UnmatchedLinesChangeNothing ==
    [][ScanStep =>
           /\ (\/ IsBlankOrComment(ThisLine)
               \/ /\ NeitherOpensNorCloses(ThisLine, state)
                  /\ ~(state = "MESSAGE" /\ IsFieldDecl(ThisLine))
                  /\ ~(state = "ENUM" /\ IsEnumValueDecl(ThisLine))
                  /\ ~(state = "ENUM" /\ IsFieldDecl(ThisLine))
                  /\ ~(state = "SERVICE" /\ IsRpcDecl(ThisLine)))
              => UNCHANGED <<scan_vars, raised>>
           /\ (state = "ENUM" /\ IsFieldDecl(ThisLine)) =>
                  /\ body_code' = Append(body_code,
                         <<"\t">> \o DeclName(ThisLine)
                             \o (IF is_first_enum_field
                                 THEN <<" ">> \o current_enum_name \o <<" = iota">>
                                 ELSE <<>>))
                  /\ is_first_enum_field' = FALSE
                  /\ UNCHANGED <<state, current_enum_name, imports, raised>>
      ]_vars

\* an enum value and an rpc were scanned in state MESSAGE and left no trace
C14_Witness ==
    /\ line_count = 3
    /\ SubSeq(lines, 1, 3) = <<L_message, L_ACTIVE, L_rpc>>
    /\ state = "MESSAGE"
    /\ Len(body_code) = 2
    /\ imports = {S_impContext}

----------------------------------------------------------------------------
(* C15 *)

GoUuid == <<"u","u","i","d",".","U","U","I","D">>
GoTime == <<"t","i","m","e",".","T","i","m","e">>
SliceOf(go_type) == <<"[", "]">> \o go_type

\* C15: the type a field matched in MESSAGE is emitted with is the table's
\* type for the declared name (the name itself when the table has none),
\* replaced by uuid.UUID when the comment has a UUID hint, and then wrapped
\* as a sequence when the field is repeated: a repeated field with a hint is
\* []uuid.UUID, a repeated Timestamp without one []time.Time, and Foo stays
\* Foo.
C15_TypeOrder ==
    FieldScanned =>
        LET l == lines[2]
            emitted == EmittedType(body_code[3])
            element == IF HasUuidComment(l) THEN GoUuid ELSE map_type(DeclType(l))
        IN /\ emitted = IF DeclRepeated(l) THEN SliceOf(element) ELSE element
           /\ (DeclRepeated(l) /\ HasUuidComment(l)) => emitted = SliceOf(GoUuid)
           /\ (~DeclRepeated(l) /\ HasUuidComment(l)) => emitted = GoUuid
           /\ (DeclRepeated(l) /\ ~HasUuidComment(l) /\ DeclType(l) = N_Timestamp)
                  => emitted = SliceOf(GoTime)
           /\ (DeclRepeated(l) /\ ~HasUuidComment(l) /\ DeclType(l) = N_Foo)
                  => emitted = SliceOf(N_Foo)
           /\ (~DeclRepeated(l) /\ ~HasUuidComment(l) /\ DeclType(l) = N_Foo)
                  => emitted = N_Foo

\* a repeated Timestamp field with a UUID hint was emitted as []uuid.UUID
C15_Witness ==
    /\ FieldScanned
    /\ lines[2] = FieldDecl(TRUE, N_Timestamp, N_refs, "1", <<S_UUID>>)
    /\ EmittedType(body_code[3]) = SliceOf(GoUuid)

----------------------------------------------------------------------------
(* C16 *)

\* the line of the body buffer that starts a block, and the lines that end one
IsBlockStart(line) ==
    line # <<>> /\ line[Len(line)] \in {" struct {", " interface {", "const ("}
IsDelimiter(line) == line \in {<<"}">>, <<")">>}

\* C16: when the input ends in a state other than NONE, the scan and the
\* assembly complete with no exception and no exit; the body buffer has no
\* closing delimiter after the line that starts its last block, and the
\* assembled text ends with the body buffer as it is; such a run ends with
\* status 0 unless a later step fails.
C16_UnterminatedBlockLeftOpen ==
    /\ (pc = "format" /\ state # "NONE") =>
           LET starts == {k \in DOMAIN body_code : IsBlockStart(body_code[k])}
               t == TextLines(go_code)
           IN /\ raised = "none"
              /\ exit_status = -1
              /\ starts # {}
              /\ \A j \in DOMAIN body_code :
                     (\A k \in starts : k < j) => ~IsDelimiter(body_code[j])
              /\ Len(t) >= Len(body_code)
              /\ SubSeq(t, Len(t) - Len(body_code) + 1, Len(t)) = body_code
    /\ (pc = "exit" /\ state # "NONE" /\ raised = "none") => exit_status = 0

\* the input ended inside an enum block that holds one value
C16_Witness ==
    /\ pc = "format"
    /\ lines = <<L_enum, L_ACTIVE>>
    /\ state = "ENUM"
    /\ Len(body_code) = 4
    /\ raised = "none"

----------------------------------------------------------------------------
(* C17 *)

IsPrefix(s, t) == Len(s) <= Len(t) /\ SubSeq(t, 1, Len(s)) = s

\* C17: in every step the body buffer before is a prefix of the buffer
\* after, the import set before is a subset of the set after, and the input
\* lines stay as they are; every step of the scan advances the line counter
\* by exactly one, never past the number of lines, and the assembly is done
\* only once the counter has reached it; and every run reaches the assembled
\* text.
C17_AppendOnlySinglePass ==
    /\ [][/\ IsPrefix(body_code, body_code')
          /\ imports \subseteq imports'
          /\ lines' = lines
          /\ (pc = "scan" /\ pc' = "scan") =>
                 line_count' = line_count + 1 /\ line_count' <= Len(lines)
          /\ (pc = "scan" /\ pc' # "scan") =>
                 /\ pc' = "format"
                 /\ line_count = Len(lines)
                 /\ line_count' = line_count
                 /\ UNCHANGED <<body_code, imports>>
        ]_vars
    /\ <>(pc = "format")

\* two lines were consumed, the buffer and the import set grew, and the
\* text was assembled
C17_Witness ==
    /\ pc = "format"
    /\ line_count = 2
    /\ lines = <<L_message, L_user_id>>
    /\ imports = {S_impContext, S_impUuid}
    /\ Len(body_code) = 3

----------------------------------------------------------------------------
(* C18 *)

\* the two parenthesised groups of an rpc declaration, and the type name a
\* group declares: its last lexeme, after any qualifier and white space
RequestGroup(l) ==
    LET close == CHOOSE i \in DOMAIN l : l[i] = RParen /\ \A j \in 1..(i - 1) : l[j] # RParen
    IN SubSeq(l, 4, close - 1)
ResponseGroup(l) ==
    LET ret == CHOOSE i \in DOMAIN l : l[i] = S_returns
    IN SubSeq(l, ret + 2, Len(BeforeComment(l)) - 2)
TypeNameOf(group) == group[Len(group)]

MethodLineOf(name, request, response) ==
    <<"\t">> \o name \o <<"(ctx context.Context, req *">> \o request
        \o <<") (*">> \o response \o <<", error)">>

\* C18: a step that consumes an rpc declaration in state SERVICE leaves the
\* state SERVICE and appends the one line
\* <Name>(ctx context.Context, req *<Req>) (*<Resp>, error), with <Req> and
\* <Resp> the declared type names without any stream qualifier.
C18_RpcMethodLine ==
    [][(ScanStep /\ state = "SERVICE" /\ IsRpcDecl(ThisLine)) =>
           /\ state' = "SERVICE"
           /\ body_code' = Append(body_code,
                  MethodLineOf(ThisLine[2],
                               TypeNameOf(RequestGroup(ThisLine)),
                               TypeNameOf(ResponseGroup(ThisLine))))
      ]_vars

\* what does hold: the same for every rpc declaration whose stream
\* qualifiers are each followed by one blank, on the request, the response,
\* both or neither
SingleBlanks(group) == \A i \in DOMAIN group : ~IsSpace(group[i])
C18_RpcMethodLineSingleBlank ==
    [][(/\ ScanStep /\ state = "SERVICE" /\ IsRpcDecl(ThisLine)
        /\ SingleBlanks(RequestGroup(ThisLine))
        /\ SingleBlanks(ResponseGroup(ThisLine))) =>
           /\ state' = "SERVICE"
           /\ body_code' = Append(body_code,
                  MethodLineOf(ThisLine[2],
                               TypeNameOf(RequestGroup(ThisLine)),
                               TypeNameOf(ResponseGroup(ThisLine))))
      ]_vars

\* an rpc with stream and a tab before the request type was scanned in
\* SERVICE, and the qualifier is in the method line
C18_Witness ==
    /\ line_count = 2
    /\ SubSeq(lines, 1, 2) = <<L_service, L_rpc_stream_tab>>
    /\ state = "SERVICE"
    /\ body_code[3] =
           MethodLineOf(N_Get, S_stream \o <<"\t">> \o N_GetRequest, N_GetResponse)

----------------------------------------------------------------------------
(* C19 *)

\* every opener line of the input finds no block open, and a `}` line
\* follows it
OpenersClosed ==
    \A k \in DOMAIN lines :
        OpenerKind(lines[k]) # "NONE" =>
            /\ KindOpenAt(k) = "NONE"
            /\ \E j \in (k + 1)..Len(lines) : IsCloserLine(lines[j])

\* the delimiter that ends the block a line of the buffer starts
DelimiterOf(start_line) == IF start_line = <<"const (">> THEN <<")">> ELSE <<"}">>

\* C19: when every opener of the input is scanned in state NONE and later
\* followed by a `}` line, the scan ends in state NONE, every line of the
\* buffer that starts a block is followed, before the next such line, by
\* exactly one closing delimiter, the one of its kind, and every closing
\* delimiter in the buffer is followed at once by a blank line.
C19_DelimitersBalanced ==
    (pc = "format" /\ OpenersClosed) =>
        LET starts == {k \in DOMAIN body_code : IsBlockStart(body_code[k])}
            block_end(k) ==
                IF \E m \in starts : m > k
                THEN (CHOOSE m \in starts : m > k /\ \A n \in starts : n > k => m <= n) - 1
                ELSE Len(body_code)
        IN /\ state = "NONE"
           /\ \A k \in starts :
                  LET ends == {j \in (k + 1)..block_end(k) : IsDelimiter(body_code[j])}
                  IN /\ Cardinality(ends) = 1
                     /\ \A j \in ends : body_code[j] = DelimiterOf(body_code[k])
           /\ \A j \in DOMAIN body_code :
                  IsDelimiter(body_code[j]) =>
                      /\ j < Len(body_code)
                      /\ body_code[j + 1] = <<>>
                      /\ \E k \in starts : k < j

\* a message block and an enum block, each opened in NONE and closed
C19_Witness ==
    /\ pc = "format"
    /\ lines = <<L_message, L_close, L_enum, L_close_note>>
    /\ OpenersClosed
    /\ state = "NONE"
    /\ Len(body_code) = 9

----------------------------------------------------------------------------
(* C20 *)

\* line k of the input is a field declaration that finds a message open
FieldMatchedAt(k) ==
    /\ KindOpenAt(k) = "MESSAGE"
    /\ OpenerKind(lines[k]) = "NONE"
    /\ ~IsCloserLine(lines[k])
    /\ IsFieldDecl(lines[k])

\* the type names that the table maps to time.Time
TimeTypeNames ==
    {N_Timestamp,
     <<"g","o","o","g","l","e",".","p","r","o","t","o","b","u","f",".">> \o N_Timestamp}

\* C20: at the end of the scan the import set holds the context import; the
\* time import if and only if some field matched in state MESSAGE declared
\* Timestamp or google.protobuf.Timestamp, with or without a UUID hint; the
\* uuid import if and only if some field matched in state MESSAGE has a UUID
\* hint in its comment; and nothing else.
C20_ImportsCharacterised ==
    pc = "format" =>
        /\ S_impContext \in imports
        /\ imports \subseteq {S_impContext, S_impTime, S_impUuid}
        /\ S_impTime \in imports <=>
               \E k \in DOMAIN lines :
                   FieldMatchedAt(k) /\ DeclType(lines[k]) \in TimeTypeNames
        /\ S_impUuid \in imports <=>
               \E k \in DOMAIN lines : FieldMatchedAt(k) /\ HasUuidComment(lines[k])

\* a repeated Timestamp field with a UUID hint registered both imports
C20_Witness ==
    /\ pc = "format"
    /\ lines = <<L_message, L_seen_at>>
    /\ imports = {S_impContext, S_impTime, S_impUuid}
    /\ EmittedType(body_code[3]) = SliceOf(GoUuid)

====
